---- MODULE Spec2Model ----
(***************************************************************************)
(* Nigerian Tax Calculator: the tax computation of calculateTax and of the *)
(* step-5 results view of CalculatorPage, driven by the wizard's state.    *)
(*                                                                         *)
(* Money is a JavaScript number in the source.  Here it is an exact        *)
(* decimal fixed-point value [w |-> whole naira, f |-> ten-thousandths of  *)
(* a naira], f in 0..FracBase-1.  Every product the source forms (x 0.01,  *)
(* x 0.2, x 0.1 and the band rates, all whole percents) of the values it   *)
(* can be given (whole naira typed by the user) is exact at this           *)
(* resolution; the 2^-53 relative rounding of doubles is not modelled.     *)
(* Whole naira are kept apart from the fraction so that no intermediate    *)
(* exceeds 32 bits.                                                        *)
(***************************************************************************)
EXTENDS Integers, Sequences, FiniteSets, TLC

\* ------------------------------------------------------------------------
\* Fixed-point money
\* ------------------------------------------------------------------------
FracBase == 10000

Naira(n) == [w |-> n, f |-> 0]

Zero == Naira(0)

MLeq(a, b) == a.w < b.w \/ (a.w = b.w /\ a.f <= b.f)

MLt(a, b) == a.w < b.w \/ (a.w = b.w /\ a.f < b.f)

MMin(a, b) == IF MLeq(a, b) THEN a ELSE b

MMax(a, b) == IF MLeq(a, b) THEN b ELSE a

MAdd(a, b) ==
  LET f == a.f + b.f
  IN  [w |-> a.w + b.w + (f \div FracBase), f |-> f % FracBase]

\* a - b for b <= a
MSub(a, b) ==
  IF a.f >= b.f THEN [w |-> a.w - b.w, f |-> a.f - b.f]
  ELSE [w |-> a.w - b.w - 1, f |-> a.f + FracBase - b.f]

\* Math.max(a - b, 0)
MSubFloor(a, b) == IF MLeq(a, b) THEN Zero ELSE MSub(a, b)

\* a * (pct / 100), pct a whole percent
MPct(a, pct) ==
  LET q == (a.w \div 100) * pct
      r == (a.w % 100) * pct
      t == r * 100 + ((a.f * pct) \div 100)
  IN  [w |-> q + (t \div FracBase), f |-> t % FracBase]

\* n * a for a natural n (monthly income x 12)
MTimes(n, a) ==
  LET f == n * a.f
  IN  [w |-> n * a.w + (f \div FracBase), f |-> f % FracBase]

\* Math.round(x): nearest whole naira, halves up
MathRound(a) == Naira(IF 2 * a.f >= FracBase THEN a.w + 1 ELSE a.w)

\* Number.prototype.toLocaleString(): at most three fraction digits
toLocaleString(a) ==
  LET f == ((a.f + 5) \div 10) * 10
  IN  IF f >= FracBase THEN Naira(a.w + 1) ELSE [w |-> a.w, f |-> f]

\* ------------------------------------------------------------------------
\* calculateTax
\* ------------------------------------------------------------------------
Infinity == -1

BandMin(remaining, limit) ==
  IF limit = Infinity THEN remaining ELSE MMin(remaining, Naira(limit))

taxFreeThreshold == 800000

\* faulty variant: the second band is 900,000 wide instead of 9,000,000
bands2026_narrowBand ==
  << [limit |-> 2200000,  rate |-> 15],
     [limit |-> 900000,   rate |-> 18],
     [limit |-> 13000000, rate |-> 21],
     [limit |-> 25000000, rate |-> 23],
     [limit |-> Infinity, rate |-> 25] >>

\* faulty variant: the first rate is 51% instead of 15%
bands2026_swappedDigits ==
  << [limit |-> 2200000,  rate |-> 51],
     [limit |-> 9000000,  rate |-> 18],
     [limit |-> 13000000, rate |-> 21],
     [limit |-> 25000000, rate |-> 23],
     [limit |-> Infinity, rate |-> 25] >>

bands2026 ==
  << [limit |-> 2200000,  rate |-> 15],
     [limit |-> 9000000,  rate |-> 18],
     [limit |-> 13000000, rate |-> 21],
     [limit |-> 25000000, rate |-> 23],
     [limit |-> Infinity, rate |-> 25] >>

\* faulty variant: the fourth band is taxed at 21% like the fifth
bands2025_wrongRate ==
  << [limit |-> 300000,   rate |-> 7],
     [limit |-> 300000,   rate |-> 11],
     [limit |-> 500000,   rate |-> 15],
     [limit |-> 500000,   rate |-> 21],
     [limit |-> 1600000,  rate |-> 21],
     [limit |-> Infinity, rate |-> 24] >>

bands2025 ==
  << [limit |-> 300000,   rate |-> 7],
     [limit |-> 300000,   rate |-> 11],
     [limit |-> 500000,   rate |-> 15],
     [limit |-> 500000,   rate |-> 19],
     [limit |-> 1600000,  rate |-> 21],
     [limit |-> Infinity, rate |-> 24] >>

\* the currency sign the template strings of the file begin an amount with,
\* as the code points of its characters: U+20A6
NairaSign == << 8358 >>

\* A breakdown line is a template string in the source; the model keeps the
\* values the string prints: the line's kind, the currency sign, the amount,
\* the rate in percent and the band tax, each as formatted.
BandLine(amount, rate, bandTax) ==
  [kind |-> "band", sign |-> NairaSign, amount |-> amount, rate |-> rate,
   bandTax |-> bandTax]

\* faulty variant: the amount a band takes is not taken off what remains
RECURSIVE Loop2026_noSubtract(_, _, _, _)
Loop2026_noSubtract(i, remaining, tax, breakdown) ==
  IF i > Len(bands2026) \/ MLeq(remaining, Zero)
  THEN [tax |-> tax, breakdown |-> breakdown]
  ELSE LET band    == bands2026[i]
           amount  == BandMin(remaining, band.limit)
           bandTax == MPct(amount, band.rate)
       IN  Loop2026_noSubtract(i + 1, remaining, MAdd(tax, bandTax),
                    Append(breakdown,
                           BandLine(toLocaleString(amount), band.rate,
                                    toLocaleString(MathRound(bandTax)))))

RECURSIVE Loop2026(_, _, _, _)
Loop2026(i, remaining, tax, breakdown) ==
  IF i > Len(bands2026) \/ MLeq(remaining, Zero)
  THEN [tax |-> tax, breakdown |-> breakdown]
  ELSE LET band    == bands2026[i]
           amount  == BandMin(remaining, band.limit)
           bandTax == MPct(amount, band.rate)
       IN  Loop2026(i + 1, MSub(remaining, amount), MAdd(tax, bandTax),
                    Append(breakdown,
                           BandLine(toLocaleString(amount), band.rate,
                                    toLocaleString(MathRound(bandTax)))))

\* faulty variant: the 2025 line prints Math.round(bandTax) as the 2026 line does
RECURSIVE Loop2025_rounded(_, _, _, _)
Loop2025_rounded(i, remaining, tax, breakdown) ==
  IF i > Len(bands2025) \/ MLeq(remaining, Zero)
  THEN [tax |-> tax, breakdown |-> breakdown]
  ELSE LET band    == bands2025[i]
           amount  == BandMin(remaining, band.limit)
           bandTax == MPct(amount, band.rate)
       IN  Loop2025_rounded(i + 1, MSub(remaining, amount), MAdd(tax, bandTax),
                    Append(breakdown,
                           BandLine(toLocaleString(amount), band.rate,
                                    toLocaleString(MathRound(bandTax)))))

\* faulty variant: the loop does not break when nothing remains
RECURSIVE Loop2025_noBreak(_, _, _, _)
Loop2025_noBreak(i, remaining, tax, breakdown) ==
  IF i > Len(bands2025)
  THEN [tax |-> tax, breakdown |-> breakdown]
  ELSE LET band    == bands2025[i]
           amount  == BandMin(remaining, band.limit)
           bandTax == MPct(amount, band.rate)
       IN  Loop2025_noBreak(i + 1, MSub(remaining, amount), MAdd(tax, bandTax),
                    Append(breakdown,
                           BandLine(toLocaleString(amount), band.rate,
                                    toLocaleString(bandTax))))

RECURSIVE Loop2025(_, _, _, _)
Loop2025(i, remaining, tax, breakdown) ==
  IF i > Len(bands2025) \/ MLeq(remaining, Zero)
  THEN [tax |-> tax, breakdown |-> breakdown]
  ELSE LET band    == bands2025[i]
           amount  == BandMin(remaining, band.limit)
           bandTax == MPct(amount, band.rate)
       IN  Loop2025(i + 1, MSub(remaining, amount), MAdd(tax, bandTax),
                    Append(breakdown,
                           BandLine(toLocaleString(amount), band.rate,
                                    toLocaleString(bandTax))))

\* faulty variant: above the threshold the whole income goes to the bands
calculateTax2026_cliff(annualIncome) ==
  LET relief        == Zero
      taxableIncome == annualIncome
  IN  IF MLeq(annualIncome, Naira(taxFreeThreshold))
      THEN [tax |-> Zero, relief |-> Zero, taxableIncome |-> Zero,
            breakdown |-> << [kind |-> "taxfree", sign |-> NairaSign,
                              amount |-> toLocaleString(annualIncome),
                              rate |-> 0, bandTax |-> Zero] >>]
      ELSE LET r == Loop2026(1, taxableIncome, Zero,
                             << [kind |-> "threshold", sign |-> NairaSign,
                                 amount |-> toLocaleString(Naira(taxFreeThreshold)),
                                 rate |-> 0, bandTax |-> Zero] >>)
           IN  [tax |-> r.tax, relief |-> relief,
                taxableIncome |-> taxableIncome, breakdown |-> r.breakdown]

\* faulty variant: the threshold test is < instead of <=
calculateTax2026_strict(annualIncome) ==
  LET relief        == Zero
      taxableIncome == MSubFloor(annualIncome, Naira(taxFreeThreshold))
  IN  IF MLt(annualIncome, Naira(taxFreeThreshold))
      THEN [tax |-> Zero, relief |-> Zero, taxableIncome |-> Zero,
            breakdown |-> << [kind |-> "taxfree", sign |-> NairaSign,
                              amount |-> toLocaleString(annualIncome),
                              rate |-> 0, bandTax |-> Zero] >>]
      ELSE LET r == Loop2026(1, taxableIncome, Zero,
                             << [kind |-> "threshold", sign |-> NairaSign,
                                 amount |-> toLocaleString(Naira(taxFreeThreshold)),
                                 rate |-> 0, bandTax |-> Zero] >>)
           IN  [tax |-> r.tax, relief |-> relief,
                taxableIncome |-> taxableIncome, breakdown |-> r.breakdown]

\* faulty variant: the threshold is not taken off the taxable income
calculateTax2026_noThreshold(annualIncome) ==
  LET relief        == Zero
      taxableIncome == annualIncome
  IN  IF MLeq(annualIncome, Naira(taxFreeThreshold))
      THEN [tax |-> Zero, relief |-> Zero, taxableIncome |-> Zero,
            breakdown |-> << [kind |-> "taxfree", sign |-> NairaSign,
                              amount |-> toLocaleString(annualIncome),
                              rate |-> 0, bandTax |-> Zero] >>]
      ELSE LET r == Loop2026(1, taxableIncome, Zero,
                             << [kind |-> "threshold", sign |-> NairaSign,
                                 amount |-> toLocaleString(Naira(taxFreeThreshold)),
                                 rate |-> 0, bandTax |-> Zero] >>)
           IN  [tax |-> r.tax, relief |-> relief,
                taxableIncome |-> taxableIncome, breakdown |-> r.breakdown]

calculateTax2026(annualIncome) ==
  LET relief        == Zero
      taxableIncome == MSubFloor(annualIncome, Naira(taxFreeThreshold))
  IN  IF MLeq(annualIncome, Naira(taxFreeThreshold))
      THEN [tax |-> Zero, relief |-> Zero, taxableIncome |-> Zero,
            breakdown |-> << [kind |-> "taxfree", sign |-> NairaSign,
                              amount |-> toLocaleString(annualIncome),
                              rate |-> 0, bandTax |-> Zero] >>]
      ELSE LET r == Loop2026(1, taxableIncome, Zero,
                             << [kind |-> "threshold", sign |-> NairaSign,
                                 amount |-> toLocaleString(Naira(taxFreeThreshold)),
                                 rate |-> 0, bandTax |-> Zero] >>)
           IN  [tax |-> r.tax, relief |-> relief,
                taxableIncome |-> taxableIncome, breakdown |-> r.breakdown]

\* faulty variant: the 20% part of the relief is forgotten
calculateTax2025_noFifth(annualIncome) ==
  LET relief        == MMax(Naira(200000), MPct(annualIncome, 1))
      taxableIncome == MSubFloor(annualIncome, relief)
      r             == Loop2025(1, taxableIncome, Zero, << >>)
  IN  [tax |-> r.tax, relief |-> relief,
       taxableIncome |-> taxableIncome, breakdown |-> r.breakdown]

\* faulty variant: the smaller of 200,000 and 1% is taken
calculateTax2025_minRelief(annualIncome) ==
  LET relief        == MAdd(MMin(Naira(200000), MPct(annualIncome, 1)),
                            MPct(annualIncome, 20))
      taxableIncome == MSubFloor(annualIncome, relief)
      r             == Loop2025(1, taxableIncome, Zero, << >>)
  IN  [tax |-> r.tax, relief |-> relief,
       taxableIncome |-> taxableIncome, breakdown |-> r.breakdown]

\* faulty variant: 1% of the income is added in place of 20%
calculateTax2025_onePercent(annualIncome) ==
  LET relief        == MAdd(MMax(Naira(200000), MPct(annualIncome, 1)),
                            MPct(annualIncome, 1))
      taxableIncome == MSubFloor(annualIncome, relief)
      r             == Loop2025(1, taxableIncome, Zero, << >>)
  IN  [tax |-> r.tax, relief |-> relief,
       taxableIncome |-> taxableIncome, breakdown |-> r.breakdown]

\* faulty variant: the relief is 200,000 + 20%, the 1% alternative forgotten
calculateTax2025_fixedRelief(annualIncome) ==
  LET relief        == MAdd(Naira(200000), MPct(annualIncome, 20))
      taxableIncome == MSubFloor(annualIncome, relief)
      r             == Loop2025(1, taxableIncome, Zero, << >>)
  IN  [tax |-> r.tax, relief |-> relief,
       taxableIncome |-> taxableIncome, breakdown |-> r.breakdown]

\* faulty variant: Math.abs(annualIncome - relief) instead of Math.max(.., 0)
calculateTax2025_abs(annualIncome) ==
  LET relief        == MAdd(MMax(Naira(200000), MPct(annualIncome, 1)),
                            MPct(annualIncome, 20))
      taxableIncome == IF MLeq(annualIncome, relief)
                       THEN MSub(relief, annualIncome)
                       ELSE MSub(annualIncome, relief)
      r             == Loop2025(1, taxableIncome, Zero, << >>)
  IN  [tax |-> r.tax, relief |-> relief,
       taxableIncome |-> taxableIncome, breakdown |-> r.breakdown]

calculateTax2025(annualIncome) ==
  LET relief        == MAdd(MMax(Naira(200000), MPct(annualIncome, 1)),
                            MPct(annualIncome, 20))
      taxableIncome == MSubFloor(annualIncome, relief)
      r             == Loop2025(1, taxableIncome, Zero, << >>)
  IN  [tax |-> r.tax, relief |-> relief,
       taxableIncome |-> taxableIncome, breakdown |-> r.breakdown]

calculateTax(annualIncome, year) ==
  IF year = "2026" THEN calculateTax2026(annualIncome)
  ELSE calculateTax2025(annualIncome)

\* a call that leaves the year out: the parameter's default
calculateTax_defaultYear(annualIncome) == calculateTax(annualIncome, "2025")

\* ------------------------------------------------------------------------
\* calculateTax of the earlier page, src/app/calculator/page.tsx: one
\* parameter, the legacy computation only
\* ------------------------------------------------------------------------
\* the characters its template strings begin an amount with: U+201A,
\* U+00C7, U+00B6
page_Sign == << 8218, 199, 182 >>

page_bands ==
  << [limit |-> 300000,   rate |-> 7],
     [limit |-> 300000,   rate |-> 11],
     [limit |-> 500000,   rate |-> 15],
     [limit |-> 500000,   rate |-> 19],
     [limit |-> 1600000,  rate |-> 21],
     [limit |-> Infinity, rate |-> 24] >>

page_BandLine(amount, rate, bandTax) ==
  [kind |-> "band", sign |-> page_Sign, amount |-> amount, rate |-> rate,
   bandTax |-> bandTax]

RECURSIVE page_Loop(_, _, _, _)
page_Loop(i, remaining, tax, breakdown) ==
  IF i > Len(page_bands) \/ MLeq(remaining, Zero)
  THEN [tax |-> tax, breakdown |-> breakdown]
  ELSE LET band    == page_bands[i]
           amount  == BandMin(remaining, band.limit)
           bandTax == MPct(amount, band.rate)
       IN  page_Loop(i + 1, MSub(remaining, amount), MAdd(tax, bandTax),
                     Append(breakdown,
                            page_BandLine(toLocaleString(amount), band.rate,
                                          toLocaleString(bandTax))))

page_calculateTax(annualIncome) ==
  LET relief        == MAdd(MMax(Naira(200000), MPct(annualIncome, 1)),
                            MPct(annualIncome, 20))
      taxableIncome == MSubFloor(annualIncome, relief)
      r             == page_Loop(1, taxableIncome, Zero, << >>)
  IN  [tax |-> r.tax, relief |-> relief,
       taxableIncome |-> taxableIncome, breakdown |-> r.breakdown]

\* ------------------------------------------------------------------------
\* Text fields.  A string is a tuple of one-character strings.
\* ------------------------------------------------------------------------
DigitChars == {"0", "1", "2", "3", "4", "5", "6", "7", "8", "9"}

DigitVal(c) ==
  CASE c = "0" -> 0 [] c = "1" -> 1 [] c = "2" -> 2 [] c = "3" -> 3
    [] c = "4" -> 4 [] c = "5" -> 5 [] c = "6" -> 6 [] c = "7" -> 7
    [] c = "8" -> 8 [] c = "9" -> 9

DigitChar(d) ==
  CASE d = 0 -> "0" [] d = 1 -> "1" [] d = 2 -> "2" [] d = 3 -> "3"
    [] d = 4 -> "4" [] d = 5 -> "5" [] d = 6 -> "6" [] d = 7 -> "7"
    [] d = 8 -> "8" [] d = 9 -> "9"

IsDigit(c) == c \in DigitChars

NotComma(c) == c # ","

\* Number(s) of a string of digits ("" is 0)
RECURSIVE NumberOfDigits(_)
NumberOfDigits(s) ==
  IF s = << >> THEN 0
  ELSE 10 * NumberOfDigits(SubSeq(s, 1, Len(s) - 1)) + DigitVal(s[Len(s)])

\* String(n): the decimal digits of a natural, no leading zero
RECURSIVE DigitsOf(_)
DigitsOf(n) ==
  IF n < 10 THEN << DigitChar(n) >>
  ELSE Append(DigitsOf(n \div 10), DigitChar(n % 10))

\* n.toLocaleString("en-NG") of a natural: groups of three, comma-separated
RECURSIVE Grouped(_)
Grouped(n) ==
  IF n < 1000 THEN DigitsOf(n)
  ELSE LET r == n % 1000
       IN  Grouped(n \div 1000)
             \o << ",", DigitChar(r \div 100), DigitChar((r \div 10) % 10),
                   DigitChar(r % 10) >>

\* A number too large for a 32-bit integer is kept as its decimal numeral: a
\* tuple of digits without a leading zero, "0" for zero.
RECURSIVE StripZeros(_)
StripZeros(d) ==
  IF d = << >> THEN << "0" >>
  ELSE IF d[1] = "0" /\ Len(d) > 1 THEN StripZeros(Tail(d))
  ELSE d

\* a <= b for two numerals of the same length
RECURSIVE DigitwiseLeq(_, _)
DigitwiseLeq(a, b) ==
  IF a = << >> THEN TRUE
  ELSE IF a[1] = b[1] THEN DigitwiseLeq(Tail(a), Tail(b))
  ELSE DigitVal(a[1]) < DigitVal(b[1])

NumeralLeq(a, b) ==
  \/ Len(a) < Len(b)
  \/ Len(a) = Len(b) /\ DigitwiseLeq(a, b)

\* the numeral of n + 1
RECURSIVE Succ(_)
Succ(n) ==
  IF n = << >> THEN << "1" >>
  ELSE IF n[Len(n)] = "9"
  THEN Append(Succ(SubSeq(n, 1, Len(n) - 1)), "0")
  ELSE [n EXCEPT ![Len(n)] = DigitChar(DigitVal(n[Len(n)]) + 1)]

\* the numeral of n - 1 for n that does not end in 0
Pred(n) == [n EXCEPT ![Len(n)] = DigitChar(DigitVal(n[Len(n)]) - 1)]

\* 2^53: up to here a double holds every integer, from here to 2^54 the even
\* ones only
TwoTo53 ==
  << "9", "0", "0", "7", "1", "9", "9", "2",
     "5", "4", "7", "4", "0", "9", "9", "2" >>

\* Number(d) of a string of digits below 2^54 (every string of at most 16
\* digits is), as a numeral: the integer itself when a double holds it, else
\* the neighbour a double holds, the one with the even mantissa (a multiple
\* of 4)
NumberText(d) ==
  LET n    == StripZeros(d)
      last == DigitVal(n[Len(n)])
      two  == IF Len(n) > 1 THEN 10 * DigitVal(n[Len(n) - 1]) + last ELSE last
  IN  IF NumeralLeq(n, TwoTo53) \/ last % 2 = 0 THEN n
      ELSE IF two % 4 = 1 THEN Pred(n)
      ELSE Succ(n)

\* faulty variant: the groups are separated by dots
RECURSIVE GroupedText_dots(_)
GroupedText_dots(n) ==
  IF Len(n) <= 3 THEN n
  ELSE GroupedText_dots(SubSeq(n, 1, Len(n) - 3))
         \o << "." >> \o SubSeq(n, Len(n) - 2, Len(n))

\* n.toLocaleString("en-NG") of a numeral: groups of three, comma-separated
RECURSIVE GroupedText(_)
GroupedText(n) ==
  IF Len(n) <= 3 THEN n
  ELSE GroupedText(SubSeq(n, 1, Len(n) - 3))
         \o << "," >> \o SubSeq(n, Len(n) - 2, Len(n))

formatWithCommas(value) ==
  LET digits == SelectSeq(value, IsDigit)
  IN  IF digits = << >> THEN << >> ELSE GroupedText(NumberText(digits))

\* Number(value.replace(/,/g, "")) || 0 as a numeral; a string that is not
\* a decimal numeral after the commas are removed is NaN, hence 0
parseFormattedNumeral(value) ==
  LET raw == SelectSeq(value, NotComma)
  IN  IF \A i \in 1..Len(raw) : IsDigit(raw[i])
      THEN NumberText(raw) ELSE << "0" >>

\* the same as an integer, for the amounts the tax is computed on
parseFormattedNumber(value) == NumberOfDigits(parseFormattedNumeral(value))

\* ------------------------------------------------------------------------
\* Inputs the user can give
\* ------------------------------------------------------------------------
MaxDelta == 1

\* incomes at which a band, the relief rule or the threshold changes
IncomePoints ==
  { 0, 250000, 625000, 800000, 1000000, 1625000, 2250000, 3000000,
    4250000, 5000000, 12000000, 20000000, 25000000, 50000000 }

IncomeValues ==
  { p + d : p \in IncomePoints, d \in (0 - MaxDelta)..MaxDelta } \cap Nat

RentValues == { 1, 1000000, 2499999 + MaxDelta, 3000000, 10000000 }

\* what the results view is checked on: the text of the income and rent box
IncomeTexts == { << >> } \cup { Grouped(n) : n \in IncomeValues }

RentTexts == { << >> } \cup { Grouped(n) : n \in RentValues }

\* what is typed into the income and the rent box while the wizard is walked
\* texts put into the income box in one go, typed or pasted: with letters,
\* signs, points, spaces, commas and leading zeros, and numbers of sixteen
\* digits on both sides of 2^53
TypedSmall ==
  { << >>, << "a" >>, << "0" >>, << "0", "0", "7" >>,
    << "1", "2", "a", "3", "4" >>, << "-", "5" >>, << "1", ".", "5", "0" >>,
    << "1", ",", "0", "0", "0" >>, << " ", "9", "9", "9", " " >>,
    << "8", "0", "0", "0", "0", "0" >> }

TypedLarge ==
  { SubSeq(TwoTo53, 1, 14) \o << a, b >> :
      a \in { "8", "9" }, b \in DigitChars }
    \cup { [i \in 1..16 |-> "9"] }

TypedValues == TypedSmall \cup TypedLarge \cup { << "N" >> \o v : v \in TypedLarge }

IncomeInputs == { << >>, << "0" >>, DigitsOf(800000), DigitsOf(5000000) }

RentInputs == { << >>, DigitsOf(1000000) }

\* what is typed into an expense box
ExpenseInputs == { DigitsOf(50000) }

ExpenseFields == { "internet", "tools", "rent", "others" }

UserTypes == { "salary", "freelancer", "both", "crypto" }

CryptoTaxMethods == { "cgt", "pit" }

IncomeTypes == { "monthly", "yearly" }

TaxYears == { "2025", "2026" }

NIGERIAN_STATES == { "Lagos" }

\* ------------------------------------------------------------------------
\* CalculatorPage: the wizard's state
\* ------------------------------------------------------------------------
VARIABLES
  step,             \* 1..5, the wizard page shown
  userType,         \* "null" until a category is chosen
  incomeAmount,     \* the income box's text, as formatted
  incomeType,
  cryptoTaxMethod,
  selectedState,    \* "" until a state is selected
  taxYear,
  annualRent,       \* the rent box's text, as formatted
  isCalculating,
  timers,           \* results timers started by goToResults, not yet fired
  expenses          \* the four expense fields, each as String(value) gives it

\* calculateTax called on its own: the arguments of the call and its outcome
VARIABLES
  args,             \* [annualIncome, year]
  outcome,          \* [threw, value]: value holds the result once returned
  page_outcome      \* the same for calculateTax of the earlier page

vars ==
  << step, userType, incomeAmount, incomeType, cryptoTaxMethod,
     selectedState, taxYear, annualRent, isCalculating, timers, expenses,
     args, outcome, page_outcome >>

noExpenses == [field \in ExpenseFields |-> << >>]

\* no call of calculateTax apart from the page's own
noCall ==
  /\ args = [annualIncome |-> Zero, year |-> "2025"]
  /\ outcome = [threw |-> FALSE, value |-> << >>]
  /\ page_outcome = [threw |-> FALSE, value |-> << >>]

Init ==
  /\ noCall
  /\ expenses = noExpenses
  /\ step = 1
  /\ userType = "null"
  /\ incomeAmount = << >>
  /\ incomeType = "monthly"
  /\ cryptoTaxMethod = "cgt"
  /\ selectedState = ""
  /\ taxYear = "2025"
  /\ annualRent = << >>
  /\ isCalculating = FALSE
  /\ timers = 0

\* Number(String(v || "").replace(/,/g, "")) || 0
toNumber(v) ==
  LET raw == SelectSeq(v, NotComma)
  IN  IF \A i \in 1..Len(raw) : IsDigit(raw[i])
      THEN NumberOfDigits(raw) ELSE 0

numericIncome == toNumber(incomeAmount)

\* useEffect([step, userType]): a salary earner never stays on step 3
skipStep3(s, u) == IF s = 3 /\ u = "salary" THEN 4 ELSE s

\* step 1: one of the four category buttons
chooseUserType(u) ==
  /\ step = 1
  /\ userType' = u
  /\ step' = 2
  /\ UNCHANGED << incomeAmount, incomeType, cryptoTaxMethod, selectedState,
                  taxYear, annualRent, isCalculating, timers >>
  /\ UNCHANGED << expenses, args, outcome, page_outcome >>

\* step 2
setIncomeType(t) ==
  /\ step = 2
  /\ incomeType' = t
  /\ UNCHANGED << step, userType, incomeAmount, cryptoTaxMethod,
                  selectedState, taxYear, annualRent, isCalculating, timers >>
  /\ UNCHANGED << expenses, args, outcome, page_outcome >>

handleIncomeChange(value) ==
  /\ step = 2
  /\ incomeAmount' = formatWithCommas(value)
  /\ UNCHANGED << step, userType, incomeType, cryptoTaxMethod,
                  selectedState, taxYear, annualRent, isCalculating, timers >>
  /\ UNCHANGED << expenses, args, outcome, page_outcome >>

backFromStep2 ==
  /\ step = 2
  /\ step' = 1
  /\ UNCHANGED << userType, incomeAmount, incomeType, cryptoTaxMethod,
                  selectedState, taxYear, annualRent, isCalculating, timers >>
  /\ UNCHANGED << expenses, args, outcome, page_outcome >>

continueFromStep2 ==
  /\ step = 2
  /\ ~ (numericIncome <= 0)
  /\ step' = skipStep3(3, userType)
  /\ UNCHANGED << userType, incomeAmount, incomeType, cryptoTaxMethod,
                  selectedState, taxYear, annualRent, isCalculating, timers >>
  /\ UNCHANGED << expenses, args, outcome, page_outcome >>

\* step 3
setCryptoTaxMethod(m) ==
  /\ step = 3
  /\ userType = "crypto"
  /\ cryptoTaxMethod' = m
  /\ UNCHANGED << step, userType, incomeAmount, incomeType, selectedState,
                  taxYear, annualRent, isCalculating, timers >>
  /\ UNCHANGED << expenses, args, outcome, page_outcome >>

backFromStep3 ==
  /\ step = 3
  /\ step' = 2
  /\ UNCHANGED << userType, incomeAmount, incomeType, cryptoTaxMethod,
                  selectedState, taxYear, annualRent, isCalculating, timers >>
  /\ UNCHANGED << expenses, args, outcome, page_outcome >>

continueFromStep3 ==
  /\ step = 3
  /\ step' = 4
  /\ UNCHANGED << userType, incomeAmount, incomeType, cryptoTaxMethod,
                  selectedState, taxYear, annualRent, isCalculating, timers >>
  /\ UNCHANGED << expenses, args, outcome, page_outcome >>

\* step 3, the expense boxes of a filer who is no crypto trader; the field
\* is set to the number the digits of the text give, 0 when it has none
handleExpenseChange(field, value) ==
  /\ step = 3
  /\ userType # "crypto"
  /\ LET digitsOnly   == SelectSeq(value, IsDigit)
         numericValue == IF digitsOnly = << >> THEN 0
                         ELSE NumberOfDigits(digitsOnly)
     IN  expenses' = [expenses EXCEPT ![field] = DigitsOf(numericValue)]
  /\ UNCHANGED << step, userType, incomeAmount, incomeType, cryptoTaxMethod,
                  selectedState, taxYear, annualRent, isCalculating, timers >>
  /\ UNCHANGED << args, outcome, page_outcome >>

\* step 4
setSelectedState(s) ==
  /\ step = 4
  /\ selectedState' = s
  /\ UNCHANGED << step, userType, incomeAmount, incomeType, cryptoTaxMethod,
                  taxYear, annualRent, isCalculating, timers >>
  /\ UNCHANGED << expenses, args, outcome, page_outcome >>

setTaxYear(y) ==
  /\ step = 4
  /\ taxYear' = y
  /\ UNCHANGED << step, userType, incomeAmount, incomeType, cryptoTaxMethod,
                  selectedState, annualRent, isCalculating, timers >>
  /\ UNCHANGED << expenses, args, outcome, page_outcome >>

\* the rent box is rendered for 2026 only
setAnnualRent(value) ==
  /\ step = 4
  /\ taxYear = "2026"
  /\ annualRent' = formatWithCommas(value)
  /\ UNCHANGED << step, userType, incomeAmount, incomeType, cryptoTaxMethod,
                  selectedState, taxYear, isCalculating, timers >>
  /\ UNCHANGED << expenses, args, outcome, page_outcome >>

backFromStep4 ==
  /\ step = 4
  /\ step' = skipStep3(3, userType)
  /\ UNCHANGED << userType, incomeAmount, incomeType, cryptoTaxMethod,
                  selectedState, taxYear, annualRent, isCalculating, timers >>
  /\ UNCHANGED << expenses, args, outcome, page_outcome >>

goToResults ==
  /\ step = 4
  /\ ~ (selectedState = "" \/ isCalculating)
  /\ isCalculating' = TRUE
  /\ timers' = timers + 1
  /\ UNCHANGED << step, userType, incomeAmount, incomeType, cryptoTaxMethod,
                  selectedState, taxYear, annualRent >>
  /\ UNCHANGED << expenses, args, outcome, page_outcome >>

\* faulty variant: the callback shows the step-6 view
resultsTimer_step6 ==
  /\ timers > 0
  /\ timers' = timers - 1
  /\ isCalculating' = FALSE
  /\ step' = 6
  /\ UNCHANGED << userType, incomeAmount, incomeType, cryptoTaxMethod,
                  selectedState, taxYear, annualRent >>
  /\ UNCHANGED << expenses, args, outcome, page_outcome >>

\* faulty variant: the callback forgets setStep(5)
resultsTimer_noStep ==
  /\ timers > 0
  /\ timers' = timers - 1
  /\ isCalculating' = FALSE
  /\ UNCHANGED << step, userType, incomeAmount, incomeType, cryptoTaxMethod,
                  selectedState, taxYear, annualRent >>
  /\ UNCHANGED << expenses, args, outcome, page_outcome >>

\* the setTimeout callback of goToResults
resultsTimer ==
  /\ timers > 0
  /\ timers' = timers - 1
  /\ isCalculating' = FALSE
  /\ step' = 5
  /\ UNCHANGED << userType, incomeAmount, incomeType, cryptoTaxMethod,
                  selectedState, taxYear, annualRent >>
  /\ UNCHANGED << expenses, args, outcome, page_outcome >>

\* step 5
backFromStep5 ==
  /\ step = 5
  /\ step' = 4
  /\ UNCHANGED << userType, incomeAmount, incomeType, cryptoTaxMethod,
                  selectedState, taxYear, annualRent, isCalculating, timers >>
  /\ UNCHANGED << expenses, args, outcome, page_outcome >>

\* "Start over": window.location.reload() remounts the component
startOver ==
  /\ step = 5
  /\ step' = 1
  /\ userType' = "null"
  /\ incomeAmount' = << >>
  /\ incomeType' = "monthly"
  /\ cryptoTaxMethod' = "cgt"
  /\ selectedState' = ""
  /\ taxYear' = "2025"
  /\ annualRent' = << >>
  /\ isCalculating' = FALSE
  /\ timers' = 0
  /\ expenses' = noExpenses
  /\ UNCHANGED << args, outcome, page_outcome >>

Next ==
  \/ \E u \in UserTypes : chooseUserType(u)
  \/ \E t \in IncomeTypes : setIncomeType(t)
  \/ \E value \in IncomeInputs : handleIncomeChange(value)
  \/ backFromStep2
  \/ continueFromStep2
  \/ \E m \in CryptoTaxMethods : setCryptoTaxMethod(m)
  \/ backFromStep3
  \/ continueFromStep3
  \/ \E field \in ExpenseFields, value \in ExpenseInputs :
       handleExpenseChange(field, value)
  \/ \E s \in NIGERIAN_STATES \cup { "" } : setSelectedState(s)
  \/ \E y \in TaxYears : setTaxYear(y)
  \/ \E value \in RentInputs : setAnnualRent(value)
  \/ backFromStep4
  \/ goToResults
  \/ resultsTimer
  \/ backFromStep5
  \/ startOver

Spec == Init /\ [][Next]_vars

\* a timer that was set fires: the callback of a pending setTimeout is run
FairSpec == Spec /\ WF_vars(resultsTimer)

\* ------------------------------------------------------------------------
\* The results view on its own.  A run starts in a state of the wizard in
\* which See results has just been pressed (on step 4, first reached with
\* an income > 0), or in which the user has since gone back to step 2,
\* where the income can be edited, possibly by way of step 1 and another
\* category; every category, method, year, income and rent the wizard
\* accepts is drawn.
\* ------------------------------------------------------------------------
InitResults ==
  /\ noCall
  /\ expenses = noExpenses
  /\ userType \in UserTypes
  /\ incomeAmount \in IncomeTexts
  /\ incomeType \in IncomeTypes
  /\ cryptoTaxMethod \in CryptoTaxMethods
  /\ selectedState \in NIGERIAN_STATES
  /\ taxYear \in TaxYears
  /\ annualRent \in RentTexts
  /\ isCalculating = TRUE
  /\ timers = 1
  /\ \/ step = 4 /\ numericIncome > 0
     \/ step = 2

NextResults ==
  \/ resultsTimer
  \/ backFromStep5
  \/ goToResults

ResultsSpec == InitResults /\ [][NextResults]_vars

\* ------------------------------------------------------------------------
\* A user on step 2 who puts one text after another into the income box
\* ------------------------------------------------------------------------
InitTyping ==
  /\ noCall
  /\ expenses = noExpenses
  /\ step = 2
  /\ userType \in UserTypes
  /\ incomeAmount = << >>
  /\ incomeType \in IncomeTypes
  /\ cryptoTaxMethod \in CryptoTaxMethods
  /\ selectedState = ""
  /\ taxYear = "2025"
  /\ annualRent = << >>
  /\ isCalculating = FALSE
  /\ timers = 0

NextTyping == \E value \in TypedValues : handleIncomeChange(value)

TypingSpec == InitTyping /\ [][NextTyping]_vars

\* ------------------------------------------------------------------------
\* A user on step 4 who does nothing but press Back, for as long as a Back
\* button changes anything
\* ------------------------------------------------------------------------
InitBack ==
  /\ noCall
  /\ expenses = noExpenses
  /\ step = 4
  /\ userType \in UserTypes
  /\ incomeAmount \in { formatWithCommas(v) : v \in IncomeInputs }
  /\ numericIncome > 0
  /\ incomeType \in IncomeTypes
  /\ cryptoTaxMethod \in CryptoTaxMethods
  /\ selectedState \in { "" } \cup NIGERIAN_STATES
  /\ taxYear \in TaxYears
  /\ annualRent \in { formatWithCommas(v) : v \in RentInputs }
  /\ isCalculating = FALSE
  /\ timers = 0

NextBack == backFromStep4 \/ backFromStep3 \/ backFromStep2

BackSpec == InitBack /\ [][NextBack]_vars /\ WF_vars(NextBack)

\* ------------------------------------------------------------------------
\* calculateTax as a function of its arguments: a run draws the arguments,
\* any number and any string the caller may pass, and makes the call.  The
\* function has no throw statement: a call returns.
\* ------------------------------------------------------------------------
EngineIncomes == IncomeValues \cup { 0 - n : n \in { 1, 5, 250001, 1000000 } }

EngineYears == TaxYears \cup { "2024", "2027" }

InitEngine ==
  /\ args \in [annualIncome : { Naira(n) : n \in EngineIncomes },
                year : EngineYears]
  /\ outcome = [threw |-> FALSE, value |-> << >>]
  /\ page_outcome = [threw |-> FALSE, value |-> << >>]
  /\ expenses = noExpenses
  /\ step = 1
  /\ userType = "null"
  /\ incomeAmount = << >>
  /\ incomeType = "monthly"
  /\ cryptoTaxMethod = "cgt"
  /\ selectedState = ""
  /\ taxYear = "2025"
  /\ annualRent = << >>
  /\ isCalculating = FALSE
  /\ timers = 0

callCalculateTax ==
  /\ outcome.value = << >>
  /\ outcome' = [threw |-> FALSE,
                 value |-> << calculateTax(args.annualIncome, args.year) >>]
  /\ UNCHANGED << args, step, userType, incomeAmount, incomeType,
                  cryptoTaxMethod, selectedState, taxYear, annualRent,
                  isCalculating, timers, expenses, page_outcome >>

\* the earlier page's calculateTax called with the same income
page_callCalculateTax ==
  /\ page_outcome.value = << >>
  /\ page_outcome' = [threw |-> FALSE,
                      value |-> << page_calculateTax(args.annualIncome) >>]
  /\ UNCHANGED << args, step, userType, incomeAmount, incomeType,
                  cryptoTaxMethod, selectedState, taxYear, annualRent,
                  isCalculating, timers, expenses, outcome >>

NextEngine == callCalculateTax \/ page_callCalculateTax

EngineSpec == InitEngine /\ [][NextEngine]_vars

\* ------------------------------------------------------------------------
\* Step 5: the figures of the results view, computed from the state
\* ------------------------------------------------------------------------
yearlyIncome ==
  LET incomeValue == parseFormattedNumber(incomeAmount)
  IN  IF incomeType = "monthly" THEN Naira(incomeValue * 12)
      ELSE Naira(incomeValue)

\* faulty variant: the category is not looked at
isCryptoCGTOf_anyCategory(u, m) == m = "cgt"

isCryptoCGTOf(u, m) == u = "crypto" /\ m = "cgt"

isCryptoCGT == isCryptoCGTOf(userType, cryptoTaxMethod)

\* faulty variant: the relief is not capped at 500,000
rentReliefOf_uncapped(year, rent) ==
  LET rentAmount == Naira(parseFormattedNumber(rent))
  IN  IF year = "2026" THEN MPct(rentAmount, 20) ELSE Zero

\* faulty variant: the relief is given in every tax year
rentReliefOf_anyYear(year, rent) ==
  LET rentAmount == Naira(parseFormattedNumber(rent))
  IN  MMin(MPct(rentAmount, 20), Naira(500000))

\* rentRelief for a tax year and a rent box text
rentReliefOf(year, rent) ==
  LET rentAmount == Naira(parseFormattedNumber(rent))
  IN  IF year = "2026"
      THEN MMin(MPct(rentAmount, 20), Naira(500000))
      ELSE Zero

rentRelief == rentReliefOf(taxYear, annualRent)

\* Math.max(yearlyIncome - rentRelief, 0)
afterRentRelief(income) == MSubFloor(income, rentRelief)

incomeAfterRentRelief == afterRentRelief(yearlyIncome)

FlatLine(income, tax) ==
  [kind |-> "flat", sign |-> NairaSign, amount |-> toLocaleString(income),
   rate |-> 10,
   bandTax |-> toLocaleString(tax)]

\* faulty variant: the 10% capital-gains branch is missing
step5_noFlat(income) ==
  IF isCryptoCGT /\ taxYear = "2026"
  THEN calculateTax(afterRentRelief(income), "2026")
  ELSE calculateTax(afterRentRelief(income), taxYear)

\* faulty variant: calculateTax is given the income before rent relief
step5_rawIncome(income) ==
  IF isCryptoCGT /\ taxYear = "2025"
  THEN LET tax == MPct(income, 10)
       IN  [tax |-> tax, relief |-> Zero, taxableIncome |-> income,
            breakdown |-> << FlatLine(income, tax) >>]
  ELSE IF isCryptoCGT /\ taxYear = "2026"
  THEN calculateTax(income, "2026")
  ELSE calculateTax(income, taxYear)

\* faulty variant: the 10% capital-gains branch is taken in every tax year
step5Of_flatAnyYear(u, m, year, rent, income) ==
  IF isCryptoCGTOf(u, m)
  THEN LET tax == MPct(income, 10)
       IN  [tax |-> tax, relief |-> Zero, taxableIncome |-> income,
            breakdown |-> << FlatLine(income, tax) >>]
  ELSE calculateTax(MSubFloor(income, rentReliefOf(year, rent)), year)

\* tax, relief, taxableIncome and breakdown of the results view for a
\* category, method, tax year, rent box text and yearly income
step5Of(u, m, year, rent, income) ==
  IF isCryptoCGTOf(u, m) /\ year = "2025"
  THEN LET tax == MPct(income, 10)
       IN  [tax |-> tax, relief |-> Zero, taxableIncome |-> income,
            breakdown |-> << FlatLine(income, tax) >>]
  ELSE IF isCryptoCGTOf(u, m) /\ year = "2026"
  THEN calculateTax(MSubFloor(income, rentReliefOf(year, rent)), "2026")
  ELSE calculateTax(MSubFloor(income, rentReliefOf(year, rent)), year)

\* the same for a yearly income under the category, method, year and rent
\* of the state
step5(income) ==
  step5Of(userType, cryptoTaxMethod, taxYear, annualRent, income)

result == step5(yearlyIncome)

\* the annual take-home pay of the results view: Math.round(yearlyIncome - tax)
takeHomePay == MathRound(MSub(yearlyIncome, result.tax))

\* ------------------------------------------------------------------------
\* The component body's own computation (shown by the step-6 view only)
\* ------------------------------------------------------------------------
totalExpenses ==
  toNumber(expenses["internet"]) + toNumber(expenses["tools"])
    + toNumber(expenses["rent"]) + toNumber(expenses["others"])

pageResult ==
  IF MLt(Zero, yearlyIncome)
  THEN calculateTax(MSubFloor(yearlyIncome, Naira(totalExpenses)), "2025")
  ELSE [tax |-> Zero, relief |-> Zero, taxableIncome |-> Zero,
        breakdown |-> << >>]

\* ------------------------------------------------------------------------
\* Properties of the results view
\* ------------------------------------------------------------------------
\* the stated tables, written with cumulative floors instead of widths
Floors2025 == << 0, 300000, 600000, 1100000, 1600000, 3200000 >>

Rates2025 == << 7, 11, 15, 19, 21, 24 >>

\* floors on the income before the 800,000 threshold is taken off
Floors2026 == << 800000, 3000000, 12000000, 25000000, 50000000 >>

Rates2026 == << 15, 18, 21, 23, 25 >>

\* the part of x lying in band i of a table: between floor i and floor i+1
Slice(x, floors, i) ==
  IF i = Len(floors) THEN MSubFloor(x, Naira(floors[i]))
  ELSE MSubFloor(MMin(x, Naira(floors[i + 1])), Naira(floors[i]))

RECURSIVE ClosedFormFrom(_, _, _, _)
ClosedFormFrom(x, floors, rates, i) ==
  IF i > Len(floors) THEN Zero
  ELSE MAdd(MPct(Slice(x, floors, i), rates[i]),
            ClosedFormFrom(x, floors, rates, i + 1))

\* progressive tax on x: the sum over the bands of rate x slice
ClosedForm(x, floors, rates) == ClosedFormFrom(x, floors, rates, 1)

\* t = Math.max(a - b, 0), stated by addition
IsFlooredDifference(t, a, b) ==
  IF MLeq(a, b) THEN t = Zero ELSE MAdd(t, b) = a

Shown == step = 5

Legacy == taxYear = "2025"

Reform == taxYear = "2026"

FlatCGT == isCryptoCGT /\ Legacy

LegacyBanded == Legacy /\ ~ isCryptoCGT

NoRent == parseFormattedNumber(annualRent) = 0

\* C1: in the legacy year a crypto trader on the capital-gains method is
\* shown tax = a tenth of the yearly income, relief 0, taxable income = the
\* income, and a breakdown of exactly one line, the flat one; no band line.
C1_FlatCapitalGains ==
  (Shown /\ FlatCGT) =>
    /\ MTimes(10, result.tax) = yearlyIncome
    /\ result.relief = Zero
    /\ result.taxableIncome = yearlyIncome
    /\ Len(result.breakdown) = 1
    /\ result.breakdown[1].kind = "flat"
    /\ result.breakdown[1].rate = 10

C1_Witness ==
  /\ Shown /\ FlatCGT
  /\ yearlyIncome = Naira(5000000)
  /\ result.tax = Naira(500000)

\* the whole and the hundredths of max(200000, n x 0.01) + n x 0.20 for a
\* whole income n, by integer division
ReliefOf(n) ==
  LET cents == (IF n >= 20000000 THEN n % 100 ELSE 0) + 20 * (n % 5)
      whole == (IF n >= 20000000 THEN n \div 100 ELSE 200000) + (n \div 5)
  IN  [w |-> whole + (cents \div 100), f |-> (cents % 100) * 100]

\* C2: on the legacy banded path the relief is max(200000, 1% of income) +
\* 20% of income and the taxable income is max(income - relief, 0).
C2_LegacyRelief ==
  (Shown /\ LegacyBanded) =>
    /\ result.relief = ReliefOf(yearlyIncome.w)
    /\ IsFlooredDifference(result.taxableIncome, yearlyIncome, result.relief)

C2_Witness ==
  /\ Shown /\ LegacyBanded
  /\ yearlyIncome = Naira(25000000)
  /\ result.relief = Naira(5250000)
  /\ result.taxableIncome = Naira(19750000)

\* C3: on the legacy banded path the tax of the band loop is the
\* progressive tax on the taxable income with floors 0, 300k, 600k, 1.1M,
\* 1.6M, 3.2M and rates 7, 11, 15, 19, 21, 24 percent.
C3_LegacyClosedForm ==
  (Shown /\ LegacyBanded) =>
    result.tax = ClosedForm(result.taxableIncome, Floors2025, Rates2025)

C3_Witness ==
  /\ Shown /\ LegacyBanded
  /\ MLt(Naira(3200000), result.taxableIncome)
  /\ Len(result.breakdown) = 6

\* C4: in the reform year the relief is 0, the taxable income is
\* max(incomeAfterRentRelief - 800000, 0) and the tax is the progressive
\* tax with ceilings 3M, 12M, 25M, 50M on the income after rent relief and
\* rates 15, 18, 21, 23, 25 percent; 800,001 without rent gives taxable
\* income 1 and tax 0.15.
C4_ReformClosedForm ==
  (Shown /\ Reform) =>
    /\ result.relief = Zero
    /\ IsFlooredDifference(result.taxableIncome, incomeAfterRentRelief,
                           Naira(800000))
    /\ result.tax = ClosedForm(incomeAfterRentRelief, Floors2026, Rates2026)
    /\ (yearlyIncome = Naira(800001) /\ NoRent) =>
         /\ result.taxableIncome = Naira(1)
         /\ result.tax = [w |-> 0, f |-> 1500]

C4_Witness ==
  /\ Shown /\ Reform /\ NoRent
  /\ yearlyIncome = Naira(800001)
  /\ result.tax = [w |-> 0, f |-> 1500]

\* C5: in the reform year without rent every income <= 800000 gives tax 0,
\* taxable income 0 and a breakdown of exactly one line, the below-threshold
\* one; no band line.
C5_BelowThreshold ==
  (Shown /\ Reform /\ NoRent /\ MLeq(yearlyIncome, Naira(800000))) =>
    /\ result.tax = Zero
    /\ result.taxableIncome = Zero
    /\ Len(result.breakdown) = 1
    /\ result.breakdown[1].kind = "taxfree"

C5_Witness ==
  /\ Shown /\ Reform /\ NoRent
  /\ yearlyIncome = Naira(800000)
  /\ result.breakdown[1].kind = "taxfree"

BelowThresholdLine ==
  /\ Len(result.breakdown) = 1
  /\ result.breakdown[1].kind = "taxfree"

\* C6 as stated: in the reform year a filer whose raw yearly income exceeds
\* 800000 is never classified as below threshold.
C6_RawIncomeDecides ==
  (Shown /\ Reform /\ MLt(Naira(800000), yearlyIncome)) => ~ BelowThresholdLine

\* C6: in the reform year the below-threshold short-circuit is decided by
\* the income after rent relief: the result is the below-threshold one
\* exactly when incomeAfterRentRelief <= 800000, also for a filer whose raw
\* income exceeds 800000.
C6_ReducedIncomeDecides ==
  (Shown /\ Reform) =>
    (BelowThresholdLine <=> MLeq(incomeAfterRentRelief, Naira(800000)))

C6_Witness ==
  /\ Shown /\ Reform
  /\ MLt(Naira(800000), yearlyIncome)
  /\ MLeq(incomeAfterRentRelief, Naira(800000))
  /\ BelowThresholdLine

\* C7 as stated: taxableIncome = max(income - relief, 0) in both years,
\* except on the legacy flat path where taxableIncome = income, relief = 0.
C7_TaxableIsIncomeLessRelief ==
  Shown =>
    IF FlatCGT
    THEN result.taxableIncome = yearlyIncome /\ result.relief = Zero
    ELSE IsFlooredDifference(result.taxableIncome, yearlyIncome, result.relief)

\* C7: on the legacy banded path taxableIncome = max(income - relief, 0);
\* on the legacy flat path taxableIncome = income and relief = 0; in the
\* reform year relief = 0 and taxableIncome = max(income - rentRelief -
\* 800000, 0).
C7_TaxableIncome ==
  Shown =>
    IF FlatCGT
    THEN result.taxableIncome = yearlyIncome /\ result.relief = Zero
    ELSE IF Legacy
    THEN IsFlooredDifference(result.taxableIncome, yearlyIncome, result.relief)
    ELSE /\ result.relief = Zero
         /\ IsFlooredDifference(result.taxableIncome, yearlyIncome,
                                MAdd(rentRelief, Naira(800000)))

C7_Witness ==
  /\ Shown /\ Reform
  /\ MLt(Zero, rentRelief)
  /\ MLt(Zero, result.taxableIncome)
  /\ result.relief = Zero

RECURSIVE SumBandTax(_)
SumBandTax(lines) ==
  IF lines = << >> THEN Zero
  ELSE MAdd(lines[1].bandTax, SumBandTax(Tail(lines)))

\* |a - b|
Gap(a, b) == IF MLeq(a, b) THEN MSub(b, a) ELSE MSub(a, b)

BandLines == { i \in 1..Len(result.breakdown) : result.breakdown[i].kind = "band" }

Cent == [w |-> 0, f |-> 100]

Half == [w |-> 0, f |-> 5000]

\* C8 as stated: in both years tax >= 0 and the band taxes printed on the
\* breakdown lines sum to the tax within 0.01.
C8_LinesSumToTax ==
  Shown =>
    /\ MLeq(Zero, result.tax)
    /\ MLeq(Gap(SumBandTax(result.breakdown), result.tax), Cent)

\* C8: tax >= 0; in the legacy year the band taxes printed on the lines sum
\* to the tax within 0.01; in the reform year each band line prints its tax
\* rounded to a whole naira, so the sum is within 0.01 plus 0.5 per band
\* line.
C8_LinesSumToTaxRounded ==
  Shown =>
    /\ MLeq(Zero, result.tax)
    /\ Legacy => MLeq(Gap(SumBandTax(result.breakdown), result.tax), Cent)
    /\ Reform => MLeq(Gap(SumBandTax(result.breakdown), result.tax),
                      MAdd(Cent, MTimes(Cardinality(BandLines), Half)))

C8_Witness ==
  /\ Shown /\ Reform
  /\ MLt(Cent, Gap(SumBandTax(result.breakdown), result.tax))

\* C9: with the year, category, method and rent fixed, a larger yearly
\* income never has a smaller tax.
C9_Monotone ==
  Shown =>
    \A n \in IncomeValues :
      MLt(yearlyIncome, Naira(n)) => MLeq(result.tax, step5(Naira(n)).tax)

C9_Witness ==
  /\ Shown
  /\ \E n \in IncomeValues :
       MLt(yearlyIncome, Naira(n)) /\ MLt(result.tax, step5(Naira(n)).tax)

\* the bands of a table that take a positive part of x
Consumed(x, floors) == { i \in 1..Len(floors) : MLt(Zero, Slice(x, floors, i)) }

\* lines are the lines of the consumed bands of x, one each, in table order
AreBandLines(lines, x, floors, rates) ==
  /\ Len(lines) = Cardinality(Consumed(x, floors))
  /\ \A i \in 1..Len(lines) :
       /\ i \in Consumed(x, floors)
       /\ lines[i].kind = "band"
       /\ lines[i].rate = rates[i]
       /\ lines[i].amount = toLocaleString(Slice(x, floors, i))

\* the result came out of a band loop
Banded == ~ FlatCGT /\ ~ BelowThresholdLine

\* C10 as stated: the breakdown of a banded result is exactly one line per
\* band that consumed a positive amount, in table order, and no other line.
C10_OnlyBandLines ==
  (Shown /\ Banded) =>
    IF Legacy
    THEN AreBandLines(result.breakdown, result.taxableIncome,
                      Floors2025, Rates2025)
    ELSE AreBandLines(result.breakdown, incomeAfterRentRelief,
                      Floors2026, Rates2026)

\* C10: in the legacy year the breakdown of a banded result is exactly one
\* line per band that consumed a positive amount, in table order; in the
\* reform year it is the tax-free threshold line (800,000 at 0%) followed by
\* exactly those band lines.
C10_ThresholdThenBandLines ==
  (Shown /\ Banded) =>
    IF Legacy
    THEN AreBandLines(result.breakdown, result.taxableIncome,
                      Floors2025, Rates2025)
    ELSE /\ result.breakdown # << >>
         /\ result.breakdown[1].kind = "threshold"
         /\ result.breakdown[1].amount = Naira(800000)
         /\ AreBandLines(Tail(result.breakdown), incomeAfterRentRelief,
                         Floors2026, Rates2026)

C10_Witness ==
  /\ Shown /\ Banded /\ Reform
  /\ Len(result.breakdown) = 3
  /\ result.breakdown[1].kind = "threshold"
  /\ result.breakdown[3].rate = 18

\* ------------------------------------------------------------------------
\* Rent relief, tax year and crypto method
\* ------------------------------------------------------------------------
rentNumber(rent) == parseFormattedNumber(rent)

\* a fifth of n naira
FifthOf(n) == [w |-> n \div 5, f |-> (n % 5) * 2000]

CappedRents == { r \in RentTexts : rentNumber(r) >= 2500000 }

\* C11: in the reform year the rent relief is a fifth of the rent up to a
\* rent of 2,500,000 and 500,000 above, never negative; the results are those
\* of the income less the relief, 0 when the relief is larger; and for the
\* income shown every rent of 2,500,000 or more gives the same results.
C11_RentReliefCapped ==
  (Shown /\ Reform) =>
    /\ rentRelief = IF rentNumber(annualRent) <= 2500000
                    THEN FifthOf(rentNumber(annualRent))
                    ELSE Naira(500000)
    /\ MLeq(Zero, rentRelief)
    /\ result = calculateTax(IF MLeq(yearlyIncome, rentRelief) THEN Zero
                             ELSE MSub(yearlyIncome, rentRelief), "2026")
    /\ \A r1 \in CappedRents, r2 \in CappedRents :
         step5Of(userType, cryptoTaxMethod, taxYear, r1, yearlyIncome)
           = step5Of(userType, cryptoTaxMethod, taxYear, r2, yearlyIncome)

C11_Witness ==
  /\ Shown /\ Reform
  /\ rentNumber(annualRent) = 10000000
  /\ yearlyIncome = Naira(5000000)
  /\ rentRelief = Naira(500000)
  /\ result.taxableIncome = Naira(3700000)
  /\ result = step5Of(userType, cryptoTaxMethod, taxYear, Grouped(3000000),
                      yearlyIncome)

\* C12: in the legacy year the results shown are the same for every rent
\* text, the one left in the rent box from a visit to the reform year
\* included.
C12_LegacyIgnoresRent ==
  (Shown /\ Legacy) =>
    \A r \in RentTexts :
      step5Of(userType, cryptoTaxMethod, taxYear, r, yearlyIncome) = result

C12_Witness ==
  /\ Shown /\ Legacy /\ ~ isCryptoCGT
  /\ rentNumber(annualRent) = 1000000
  /\ yearlyIncome = Naira(5000000)
  /\ result.taxableIncome = Naira(3800000)

\* C13: in the reform year a crypto trader is shown the same results under
\* the capital-gains method as under the personal-income method, and they
\* hold no flat 10% line.
C13_ReformMethodsAgree ==
  (Shown /\ Reform /\ userType = "crypto") =>
    /\ step5Of("crypto", "cgt", taxYear, annualRent, yearlyIncome)
         = step5Of("crypto", "pit", taxYear, annualRent, yearlyIncome)
    /\ result = step5Of("crypto", "pit", taxYear, annualRent, yearlyIncome)
    /\ \A i \in 1..Len(result.breakdown) : result.breakdown[i].kind # "flat"

C13_Witness ==
  /\ Shown /\ Reform /\ isCryptoCGT
  /\ yearlyIncome = Naira(5000000)
  /\ NoRent
  /\ result.tax = Naira(690000)
  /\ result.breakdown[1].kind = "threshold"

\* C14: for a filer who is no crypto trader the results shown are the same
\* for either value of the stored crypto method.
C14_MethodOnlyForCrypto ==
  (Shown /\ userType # "crypto") =>
    \A m \in CryptoTaxMethods :
      step5Of(userType, m, taxYear, annualRent, yearlyIncome) = result

C14_Witness ==
  /\ Shown /\ Legacy
  /\ userType = "freelancer"
  /\ cryptoTaxMethod = "pit"
  /\ yearlyIncome = Naira(5000000)
  /\ result.taxableIncome = Naira(3800000)

\* ------------------------------------------------------------------------
\* Business expenses
\* ------------------------------------------------------------------------
\* C15 as stated: the results shown to a freelancer or to a filer with
\* salary and business are those of the yearly income less the four expense
\* fields, 0 when the expenses are larger; a salary earner's are those of the
\* yearly income.
C15_ExpensesDeducted ==
  /\ (Shown /\ userType \in { "freelancer", "both" }) =>
       result = step5(MSubFloor(yearlyIncome, Naira(totalExpenses)))
  /\ (Shown /\ userType = "salary") => result = step5(yearlyIncome)

\* ------------------------------------------------------------------------
\* calculateTax called with any number and any string
\* ------------------------------------------------------------------------
returned == outcome.value # << >>

C19_ReliefBounds ==
  Shown =>
    /\ MLeq(Zero, result.relief)
    /\ LegacyBanded =>
         MLeq(MAdd(Naira(200000), FifthOf(yearlyIncome.w)), result.relief)
    /\ (Reform \/ FlatCGT) => result.relief = Zero

C19_Witness ==
  /\ Shown /\ LegacyBanded
  /\ yearlyIncome = Naira(50000000)
  /\ result.relief = Naira(10500000)

\* C20 as stated: on the legacy banded path a yearly income of 1,000,000 is
\* shown a relief of 210,000.
C20_ReliefIs210000 ==
  (Shown /\ LegacyBanded /\ yearlyIncome = Naira(1000000)) =>
    result.relief = Naira(210000)

\* C20: on the legacy banded path a yearly income of 1,000,000 is shown a
\* relief of max(200,000, 10,000) + 200,000 = 400,000 and a taxable income
\* of 600,000.
C20_ReliefIs400000 ==
  (Shown /\ LegacyBanded /\ yearlyIncome = Naira(1000000)) =>
    /\ result.relief = Naira(400000)
    /\ result.taxableIncome = Naira(600000)

C20_Witness ==
  /\ Shown /\ LegacyBanded
  /\ yearlyIncome = Naira(1000000)
  /\ result.relief = Naira(400000)
  /\ result.tax = Naira(54000)

\* ------------------------------------------------------------------------
\* The two copies of the legacy calculator
\* ------------------------------------------------------------------------
page_returned == page_outcome.value # << >>

\* C21 as stated: for an income >= 0, calculateTax of the earlier page,
\* calculateTax with the year left out and calculateTax with the year "2025"
\* return the same tax, relief, taxable income and breakdown.
C21_CopiesAgree ==
  (returned /\ page_returned /\ args.year = "2025"
     /\ MLeq(Zero, args.annualIncome)) =>
    /\ outcome.value[1] = calculateTax_defaultYear(args.annualIncome)
    /\ page_outcome.value[1] = outcome.value[1]

\* ------------------------------------------------------------------------
\* Band filling
\* ------------------------------------------------------------------------
IsBandLine(line) == line.kind = "band"

\* the band lines of the results shown, in order
BandSeq == SelectSeq(result.breakdown, IsBandLine)

RECURSIVE SumAmount(_)
SumAmount(lines) ==
  IF lines = << >> THEN Zero
  ELSE MAdd(lines[1].amount, SumAmount(Tail(lines)))

\* band i of a table is as wide as the distance to the next floor; the last
\* band has no width
HasWidth(floors, i) == i < Len(floors)

Width(floors, i) == Naira(floors[i + 1] - floors[i])

\* lines fill the bands of a table one after another and add up to total
FillsInOrder(lines, floors, rates, total) ==
  /\ SumAmount(lines) = total
  /\ Len(lines) <= Len(floors)
  /\ \A i \in 1..Len(lines) :
       /\ lines[i].rate = rates[i]
       /\ MLt(Zero, lines[i].amount)
       /\ HasWidth(floors, i) => MLeq(lines[i].amount, Width(floors, i))
       /\ \A j \in 1..(i - 1) : lines[j].amount = Width(floors, j)

\* C22: in a banded result the amounts on the band lines add up to the
\* taxable income, each is above 0 and at most the width of its band, and a
\* band has a line only when every band before it was filled to its width.
C22_BandsFillInOrder ==
  (Shown /\ Banded) =>
    IF Legacy
    THEN FillsInOrder(BandSeq, Floors2025, Rates2025, result.taxableIncome)
    ELSE FillsInOrder(BandSeq, Floors2026, Rates2026, result.taxableIncome)

C22_Witness ==
  /\ Shown /\ Banded /\ Reform
  /\ result.taxableIncome = Naira(4200000)
  /\ Len(BandSeq) = 2
  /\ BandSeq[1].amount = Naira(2200000)
  /\ BandSeq[2].amount = Naira(2000000)

\* ------------------------------------------------------------------------
\* Tax against income
\* ------------------------------------------------------------------------
\* C23: the tax shown is at least 0 and at most the yearly income, the
\* take-home pay shown is not negative, and the tax is at most a quarter of
\* the yearly income, so the effective rate is at most 25%.
C23_TaxWithinIncome ==
  Shown =>
    /\ MLeq(Zero, result.tax)
    /\ MLeq(result.tax, yearlyIncome)
    /\ MLeq(Zero, takeHomePay)
    /\ MLeq(MTimes(4, result.tax), yearlyIncome)

C23_Witness ==
  /\ Shown /\ Reform /\ NoRent
  /\ yearlyIncome = Naira(600000000)
  /\ result.tax = Naira(147930000)
  /\ takeHomePay = Naira(452070000)

\* what is left of a yearly income of n naira under the category, method,
\* tax year and rent of the state
LeftOf(n) ==
  MSub(Naira(n),
       step5Of(userType, cryptoTaxMethod, taxYear, annualRent, Naira(n)).tax)

\* C24: with the category, method, tax year and rent of the results shown, a
\* larger yearly income leaves at least as much after tax as a smaller one,
\* before and after rounding to whole naira.
C24_TakeHomeMonotone ==
  Shown =>
    \A n \in IncomeValues :
      MLt(yearlyIncome, Naira(n)) =>
        LET left == LeftOf(n)
        IN  /\ MLeq(MSub(yearlyIncome, result.tax), left)
            /\ MLeq(takeHomePay, MathRound(left))

C24_Witness ==
  /\ Shown /\ Reform /\ NoRent
  /\ yearlyIncome = Naira(800000)
  /\ takeHomePay = Naira(800000)
  /\ LeftOf(800001) = [w |-> 800000, f |-> 8500]
  /\ LeftOf(20000001) = [w |-> 16370000, f |-> 7900]

\* C25: on the legacy banded path a yearly income of at most 250,000 is
\* shown tax 0, taxable income 0 and no breakdown line, its relief being at
\* least the income; a larger one is shown a tax above 0 and at least one
\* line.
C25_LegacyZeroTax ==
  (Shown /\ LegacyBanded) =>
    IF MLeq(yearlyIncome, Naira(250000))
    THEN /\ result.tax = Zero
         /\ result.taxableIncome = Zero
         /\ result.breakdown = << >>
         /\ MLeq(yearlyIncome, result.relief)
    ELSE /\ MLt(Zero, result.tax)
         /\ result.breakdown # << >>

C25_Witness ==
  /\ Shown /\ LegacyBanded
  /\ yearlyIncome = Naira(250001)
  /\ result.tax = [w |-> 0, f |-> 560]
  /\ Len(result.breakdown) = 1

\* ------------------------------------------------------------------------
\* The wizard's steps
\* ------------------------------------------------------------------------
\* C26: the step is always one of 1..5; the step-6 view is never shown.
C26_StepIn1To5 == step \in 1..5

C26_Witness ==
  /\ step = 5
  /\ ~ isCalculating
  /\ timers = 0
  /\ userType = "salary"

\* C27 as stated: for every category, a user on step 4 who keeps pressing
\* Back comes to step 2.
C27_BackReachesStep2 == (step = 4) ~> (step = 2)

\* ------------------------------------------------------------------------
\* The results timer
\* ------------------------------------------------------------------------
\* C28 as stated: whenever the results view is shown the income entered is
\* above 0 and a state of residence is selected.
C28_ResultsHaveIncomeAndState ==
  Shown => (numericIncome > 0 /\ selectedState # "")

\* C29: once See results is pressed the results view comes up with
\* isCalculating false, whatever is done in between; isCalculating is true
\* exactly while a timer is pending, and at most one timer is pending.
C29_ResultsCome ==
  /\ [](timers \in 0..1 /\ (isCalculating <=> timers = 1))
  /\ (isCalculating /\ timers = 1) ~> (step = 5 /\ ~ isCalculating)

C29_Witness ==
  /\ isCalculating
  /\ timers = 1
  /\ step = 2
  /\ selectedState # ""

\* ------------------------------------------------------------------------
\* The income box
\* ------------------------------------------------------------------------
\* the integer the digits of s form, 0 when s has none
DigitsNumeral(s) == StripZeros(SelectSeq(s, IsDigit))

\* some s of the texts put in whose formatting the income box holds
HoldsFormatOf(s) == step = 2 /\ incomeAmount = formatWithCommas(s)

====
